---- MODULE Spec2Model ----
(***************************************************************************)
(* Model of the handwriting scan tool (src/src/main.rs): the command line  *)
(* entry `main`, the pipeline `scan` and the grid segmenter                *)
(* `grid_cut_image`, together with the library calls they make             *)
(* (rotate270, filter3x3, to_luma8, threshold, view, to_image).            *)
(*                                                                         *)
(* Images are 8-bit grayscale and are held symbolically: a width, a        *)
(* height, the luma `fill` of the inner pixels and a frame of `fv`-valued  *)
(* pixels of thickness fl/ft/fr/fb on the left/top/right/bottom.  A file   *)
(* that decodes gives a uniform image (no frame); the frame appears when   *)
(* filter3x3 leaves the outermost pixels of its output at zero.            *)
(***************************************************************************)
EXTENDS Integers, Sequences, FiniteSets, TLC

VARIABLES
    pc,            \* position of the run inside main / scan
    args,          \* the raw command line: threshold text value, yes, output_dir
    threshold,     \* ScanArgs.threshold after parsing (u8)
    env,           \* the file system and the input file as the run finds them
    image,         \* the image the pipeline currently owns
    rect,          \* the crop rectangle computed at lines 107-111
    cells,         \* letter_images: the views returned by grid_cut_image
    confirmation,  \* "unset", "true" or "false"
    prompted,      \* whether "OK to save the images? (y/n)" was printed
    lastLine,      \* the last line read_line returned
    stages,        \* the stages that have completed, in order
    dirCreated,    \* whether create_dir_all has run
    files,         \* indices i of the letter-i.jpeg files written, in order
    error,         \* the error the run ended with, or "none"
    fin,           \* input of a function applied on its own
    fout           \* its result

vars == <<pc, args, threshold, env, image, rect, cells, confirmation, prompted,
          lastLine, stages, dirCreated, files, error, fin, fout>>

scanVars == <<pc, args, threshold, env, image, rect, cells, confirmation,
              prompted, lastLine, stages, dirCreated, files, error>>

(***************************************************************************)
(* Bounds of the model.                                                    *)
(***************************************************************************)
MaxSmall == 2        \* scan: every input image size in (1..MaxSmall)^2
MaxLineLen == 2      \* scan: characters of an input line before its newline
MaxCropDim == 2000   \* crop geometry: every dimension in 1..MaxCropDim
MaxGridDim == 14     \* grid_cut_image: every image size in (1..MaxGridDim)^2
MaxGrid == 3         \* grid_cut_image: every grid in (1..MaxGrid)^2

(***************************************************************************)
(* Program constants.                                                      *)
(***************************************************************************)
MaxLuma == 255            \* u8 pixel and threshold range
DefaultThreshold == 190
GridColumns == 12
GridRows == 9
Mant066 == 8858370        \* 0.066f32 = 8858370 * 2^-27
Mant079 == 10603201       \* 0.079f32 = 10603201 * 2^-27
Mant02 == 13421773        \* 0.2f32   = 13421773 * 2^-26

Max(a, b) == IF a >= b THEN a ELSE b
Min(a, b) == IF a <= b THEN a ELSE b

RECURSIVE Pow2(_)
Pow2(k) == IF k = 0 THEN 1 ELSE 2 * Pow2(k - 1)

RECURSIVE BitLen(_)
BitLen(n) == IF n = 0 THEN 0 ELSE 1 + BitLen(n \div 2)

(***************************************************************************)
(* `(n as f32 * c).floor() as u32` for the f32 constant c = mant * 2^-shift *)
(* (mant a 24-bit significand) and an integer n < 2^18, which `as f32`     *)
(* converts exactly.  The exact product P = n * mant is kept as            *)
(* hi * 4096 + lo; IEEE-754 multiplication rounds it to 24 significant     *)
(* bits, ties to even, and floor then drops the fraction.                  *)
(***************************************************************************)
F32MulFloor(n, mant, shift) ==
    LET mh == mant \div 4096
        ml == mant % 4096
        lowp == n * ml
        hi == n * mh + lowp \div 4096
        lo == lowp % 4096
        bits == IF hi > 0 THEN BitLen(hi) + 12 ELSE BitLen(lo)
        d == bits - 24
    IN  IF d <= 0
        THEN (hi * 4096 + lo) \div Pow2(shift)
        ELSE LET q == IF d >= 12 THEN hi \div Pow2(d - 12)
                      ELSE hi * Pow2(12 - d) + lo \div Pow2(d)
                 r == IF d >= 12 THEN (hi % Pow2(d - 12)) * 4096 + lo
                      ELSE lo % Pow2(d)
                 half == Pow2(d - 1)
                 up == IF r > half \/ (r = half /\ q % 2 = 1) THEN 1 ELSE 0
             IN  (q + up) \div Pow2(shift - d)

(***************************************************************************)
(* The crop rectangle of scan, lines 107-111.  x * 2 <= width and          *)
(* y * 2 <= height, so the u32 subtractions never wrap.                    *)
(***************************************************************************)
CropRectSymmetric(w, h) ==
    LET x == F32MulFloor(w, Mant066, 27)
        y == F32MulFloor(h, Mant079, 27)
    IN  [x |-> x, y |-> y, width |-> w - x * 2, height |-> h - y * 2]

CropRect(w, h) ==
    LET x == F32MulFloor(w, Mant066, 27)
        y == F32MulFloor(h, Mant079, 27)
    IN  [x |-> x, y |-> y, width |-> w - x * 2,
         height |-> h - y * 2 + F32MulFloor(y, Mant02, 26)]

(***************************************************************************)
(* imageproc::contrast::threshold, one pixel: a luma at or below the       *)
(* threshold becomes 0 (black), a luma above it 255 (white).               *)
(***************************************************************************)
ThresholdStrict(v, t) == IF v < t THEN 0 ELSE MaxLuma

Threshold(v, t) == IF v <= t THEN 0 ELSE MaxLuma

(***************************************************************************)
(* grid_cut_image, lines 154-180.                                          *)
(***************************************************************************)
CellWidthCeil(image_width, width) == (image_width + width - 1) \div width

CellWidth(image_width, width) == image_width \div width

CellHeight(image_height, height) == image_height \div height

\* GenericImageView::view asserts that the rectangle lies inside the image.
ViewInBounds(iw, ih, r) == r.x + r.width <= iw /\ r.y + r.height <= ih

\* the inner loop, `for col in 0..width`, from column col on: the views it
\* pushes, in the order it pushes them
RECURSIVE PushRow(_, _, _, _, _)
PushRow(row, col, width, cell_width, cell_height) ==
    IF col >= width THEN <<>>
    ELSE <<[x |-> col * cell_width, y |-> row * cell_height,
            width |-> cell_width, height |-> cell_height]>>
         \o PushRow(row, col + 1, width, cell_width, cell_height)

\* the outer loop, `for row in 0..height`, from row `row` on
RECURSIVE PushRows(_, _, _, _, _)
PushRows(row, width, height, cell_width, cell_height) ==
    IF row >= height THEN <<>>
    ELSE PushRow(row, 0, width, cell_width, cell_height)
         \o PushRows(row + 1, width, height, cell_width, cell_height)

\* the two loops exchanged: column-major order
RECURSIVE PushColumn(_, _, _, _, _)
PushColumn(row, col, height, cell_width, cell_height) ==
    IF row >= height THEN <<>>
    ELSE <<[x |-> col * cell_width, y |-> row * cell_height,
            width |-> cell_width, height |-> cell_height]>>
         \o PushColumn(row + 1, col, height, cell_width, cell_height)

RECURSIVE PushColumns(_, _, _, _, _)
PushColumns(col, width, height, cell_width, cell_height) ==
    IF col >= width THEN <<>>
    ELSE PushColumn(0, col, height, cell_width, cell_height)
         \o PushColumns(col + 1, width, height, cell_width, cell_height)

GridLoopsColumnMajor(width, height, cell_width, cell_height) ==
    PushColumns(0, width, height, cell_width, cell_height)

GridLoops(width, height, cell_width, cell_height) ==
    PushRows(0, width, height, cell_width, cell_height)

grid_cut_image(image_width, image_height, width, height) ==
    LET cell_width == CellWidth(image_width, width)
        cell_height == CellHeight(image_height, height)
        views == GridLoops(width, height, cell_width, cell_height)
    IN  [panic |-> \E i \in 1..Len(views) :
                       ~ViewInBounds(image_width, image_height, views[i]),
         views |-> views]

(***************************************************************************)
(* Images.                                                                 *)
(***************************************************************************)
NoImage == [w |-> 0, h |-> 0, fill |-> 0, rot |-> 0,
            fl |-> 0, ft |-> 0, fr |-> 0, fb |-> 0, fv |-> 0]

\* a decoded file: w x h pixels, all of luma v
Uniform(w, h, v) == [NoImage EXCEPT !.w = w, !.h = h, !.fill = v]

\* get_pixel(x, y)
PixelAt(img, x, y) ==
    IF \/ x < img.fl \/ x >= img.w - img.fr
       \/ y < img.ft \/ y >= img.h - img.fb
    THEN img.fv ELSE img.fill

\* the luma values found in rectangle r of img
RectValues(img, r) ==
    LET ix0 == img.fl
        ix1 == img.w - img.fr
        iy0 == img.ft
        iy1 == img.h - img.fb
        nonempty == r.width > 0 /\ r.height > 0
        meets == /\ Max(r.x, ix0) < Min(r.x + r.width, ix1)
                 /\ Max(r.y, iy0) < Min(r.y + r.height, iy1)
        inside == /\ r.x >= ix0 /\ r.x + r.width <= ix1
                  /\ r.y >= iy0 /\ r.y + r.height <= iy1
    IN  (IF nonempty /\ meets THEN {img.fill} ELSE {})
        \cup (IF nonempty /\ ~inside THEN {img.fv} ELSE {})

Whole(img) == [x |-> 0, y |-> 0, width |-> img.w, height |-> img.h]

ImageValues(img) == RectValues(img, Whole(img))

\* line 98: the orientation test
ShouldRotateOrSquare(width, height) == height >= width

ShouldRotate(width, height) == height > width

\* DynamicImage::rotate270: the pixel at (x, y) moves to (y, width - 1 - x),
\* so the output is height x width, the top edge becomes the left edge, the
\* right edge the top, the bottom the right and the left the bottom.
rotate270(img) ==
    [img EXCEPT !.w = img.h, !.h = img.w, !.rot = (img.rot + 270) % 360,
                !.fl = img.ft, !.ft = img.fr, !.fr = img.fb, !.fb = img.fl]

\* one output pixel of filter3x3 with the kernel of line 103 (weights sum to
\* 1): 5 * centre - up - left - right - down, clamped to the u8 range
Filter3x3Pixel(c, u, l, r, d) == Max(0, Min(MaxLuma, 5 * c - u - l - r - d))

\* imageops::filter3x3 on a uniform image: the output buffer starts at zero
\* and only the pixels with 1 <= x < width - 1 and 1 <= y < height - 1 are
\* computed, so the outermost rows and columns stay 0.
filter3x3(img) ==
    [img EXCEPT !.fill = Filter3x3Pixel(img.fill, img.fill, img.fill,
                                        img.fill, img.fill),
                !.fl = 1, !.ft = 1, !.fr = 1, !.fb = 1, !.fv = 0]

\* to_luma8 of a grayscale image followed by contrast::threshold
Binarize(img, t) ==
    [img EXCEPT !.fill = Threshold(img.fill, t), !.fv = Threshold(img.fv, t)]

\* image.view(x, y, width, height).to_image(): pixel (x', y') of the result
\* is pixel (x' + x, y' + y) of img
ViewToImage(img, r) ==
    [img EXCEPT !.w = r.width, !.h = r.height,
                !.fl = Max(0, img.fl - r.x),
                !.ft = Max(0, img.ft - r.y),
                !.fr = Max(0, img.fr - (img.w - r.x - r.width)),
                !.fb = Max(0, img.fb - (img.h - r.y - r.height))]

(***************************************************************************)
(* The confirmation prompt, lines 124-137.  A line is a sequence of        *)
(* characters; read_line returns the text up to and including the newline, *)
(* and the empty line, without a newline, at the end of input.             *)
(***************************************************************************)
Chars == {" ", "y", "n", "x"}

RECURSIVE SeqsUpTo(_, _)
SeqsUpTo(S, n) ==
    IF n = 0 THEN {<<>>}
    ELSE LET shorter == SeqsUpTo(S, n - 1)
         IN  shorter \cup {Append(q, c) : q \in shorter, c \in S}

Lines == {text \o <<"\n">> : text \in SeqsUpTo(Chars, MaxLineLen)}
         \cup {<<>>}

IsWhitespace(c) == c \in {" ", "\n"}

RECURSIVE TrimStart(_)
TrimStart(line) ==
    IF line # <<>> /\ IsWhitespace(Head(line)) THEN TrimStart(Tail(line))
    ELSE line

RECURSIVE TrimEnd(_)
TrimEnd(line) ==
    IF line # <<>> /\ IsWhitespace(line[Len(line)])
    THEN TrimEnd(SubSeq(line, 1, Len(line) - 1))
    ELSE line

\* str::trim
Trim(line) == TrimEnd(TrimStart(line))

\* str::starts_with(char)
StartsWith(line, c) == line # <<>> /\ Head(line) = c

\* one pass of the loop body after read_line: "true" and "false" break the
\* loop with that value, "retry" prints "Invalid input." and loops
AnswerUnlessYes(line) ==
    LET input == Trim(line)
    IN  IF StartsWith(input, "y") THEN "true" ELSE "false"

Answer(line) ==
    LET input == Trim(line)
    IN  IF StartsWith(input, "y") THEN "true"
        ELSE IF StartsWith(input, "n") THEN "false"
        ELSE "retry"

(***************************************************************************)
(* The command line and the environment of a run.                          *)
(***************************************************************************)
\* clap's parser for `threshold: u8`: a value outside 0..=255 is an error
ParseU8Wrapping(text) == [ok |-> TRUE, value |-> text % (MaxLuma + 1)]

ParseU8(text) ==
    IF text \in 0..MaxLuma THEN [ok |-> TRUE, value |-> text]
    ELSE [ok |-> FALSE, value |-> 0]

ThresholdTexts == {0, DefaultThreshold, MaxLuma, 300}

\* lines 88-94: the directory written to, or why there is none.  The output
\* is "dir" (--output-dir names a directory or nothing yet), "file"
\* (--output-dir names a file), "cwd" (no --output-dir) or "cwd_error" (no
\* --output-dir and current_dir() fails)
OutputCases == {"dir", "file", "cwd", "cwd_error"}

ValidateOutputNoFileCheck(output) ==
    IF output = "cwd_error" THEN "CurrentDirError" ELSE "ok"

ValidateOutput(output) ==
    IF output = "cwd_error" THEN "CurrentDirError"
    ELSE IF output = "file" THEN "OutputIsFile"
    ELSE "ok"

Lumas == {DefaultThreshold, MaxLuma}

Dims == ((1..MaxSmall) \X (1..MaxSmall))
        \cup {<<1200, 1600>>, <<200, 120>>}

Sources == {Uniform(d[1], d[2], v) : d \in Dims, v \in Lumas}

StageOrder == <<"validate", "load", "orient", "sharpen", "binarize", "crop",
                "segment", "confirm", "save">>

Idle ==
    /\ image = NoImage
    /\ rect = [x |-> 0, y |-> 0, width |-> 0, height |-> 0]
    /\ cells = <<>>
    /\ confirmation = "unset"
    /\ prompted = FALSE
    /\ lastLine = <<>>
    /\ stages = <<>>
    /\ dirCreated = FALSE
    /\ files = <<>>
    /\ error = "none"
    /\ threshold = 0

Init ==
    /\ pc = "parse"
    /\ args \in [threshold : ThresholdTexts, yes : BOOLEAN]
    /\ env \in [input_is_file : BOOLEAN, output : OutputCases,
                decodes : BOOLEAN, source : Sources]
    /\ Idle
    /\ fin = [kind |-> "scan"]
    /\ fout = [done |-> FALSE]

Fail(kind) ==
    /\ pc' = "error"
    /\ error' = kind

Done(stage) == stages' = Append(stages, stage)

\* main, lines 64-70: Cli::parse() turns the command line into ScanArgs or
\* prints a usage error and exits before scan is called
Parse ==
    /\ pc = "parse"
    /\ LET parsed == ParseU8(args.threshold)
       IN  IF parsed.ok
           THEN /\ pc' = "validate_input"
                /\ threshold' = parsed.value
                /\ error' = error
           ELSE /\ pc' = "usage_error"
                /\ error' = "InvalidThreshold"
                /\ threshold' = threshold
    /\ UNCHANGED <<args, env, image, rect, cells, confirmation, prompted,
                   lastLine, stages, dirCreated, files, fin, fout>>

\* scan, lines 83-85
ValidateInput ==
    /\ pc = "validate_input"
    /\ IF env.input_is_file
       THEN pc' = "validate_output" /\ error' = error
       ELSE Fail("InputNotFile")
    /\ UNCHANGED <<args, threshold, env, image, rect, cells, confirmation,
                   prompted, lastLine, stages, dirCreated, files, fin, fout>>

\* scan, lines 88-94
ValidateOutputDir ==
    /\ pc = "validate_output"
    /\ LET verdict == ValidateOutput(env.output)
       IN  IF verdict = "ok"
           THEN pc' = "load" /\ error' = error /\ Done("validate")
           ELSE Fail(verdict) /\ stages' = stages
    /\ UNCHANGED <<args, threshold, env, image, rect, cells, confirmation,
                   prompted, lastLine, dirCreated, files, fin, fout>>

\* scan, lines 96-97
Load ==
    /\ pc = "load"
    /\ IF env.decodes
       THEN /\ image' = env.source
            /\ pc' = "orient"
            /\ error' = error
            /\ Done("load")
       ELSE Fail("DecodeFailure") /\ UNCHANGED <<image, stages>>
    /\ UNCHANGED <<args, threshold, env, rect, cells, confirmation, prompted,
                   lastLine, dirCreated, files, fin, fout>>

\* scan, lines 98-100
Orient ==
    /\ pc = "orient"
    /\ image' = IF ShouldRotate(image.w, image.h) THEN rotate270(image)
                ELSE image
    /\ pc' = "sharpen"
    /\ Done("orient")
    /\ UNCHANGED <<args, threshold, env, rect, cells, confirmation, prompted,
                   lastLine, dirCreated, files, error, fin, fout>>

\* scan, lines 101-103
Sharpen ==
    /\ pc = "sharpen"
    /\ image' = filter3x3(image)
    /\ pc' = "binarize"
    /\ Done("sharpen")
    /\ UNCHANGED <<args, threshold, env, rect, cells, confirmation, prompted,
                   lastLine, dirCreated, files, error, fin, fout>>

\* scan, lines 104-105
BinarizeStep ==
    /\ pc = "binarize"
    /\ image' = Binarize(image, threshold)
    /\ pc' = "crop"
    /\ Done("binarize")
    /\ UNCHANGED <<args, threshold, env, rect, cells, confirmation, prompted,
                   lastLine, dirCreated, files, error, fin, fout>>

\* scan, lines 106-113: view panics when its assertion fails
Crop ==
    /\ pc = "crop"
    /\ LET r == CropRect(image.w, image.h)
       IN  /\ rect' = r
           /\ IF ViewInBounds(image.w, image.h, r)
              THEN /\ image' = ViewToImage(image, r)
                   /\ pc' = "segment"
                   /\ Done("crop")
              ELSE pc' = "panic" /\ UNCHANGED <<image, stages>>
    /\ UNCHANGED <<args, threshold, env, cells, confirmation, prompted,
                   lastLine, dirCreated, files, error, fin, fout>>

\* scan, lines 115-120
Segment ==
    /\ pc = "segment"
    /\ LET cut == grid_cut_image(image.w, image.h, GridColumns, GridRows)
       IN  IF cut.panic
           THEN pc' = "panic" /\ UNCHANGED <<cells, stages>>
           ELSE /\ cells' = cut.views
                /\ pc' = "confirm"
                /\ Done("segment")
    /\ UNCHANGED <<args, threshold, env, image, rect, confirmation, prompted,
                   lastLine, dirCreated, files, error, fin, fout>>

\* scan, lines 121-122: --yes
ConfirmYes ==
    /\ pc = "confirm"
    /\ args.yes
    /\ confirmation' = "true"
    /\ pc' = "save_dir"
    /\ Done("confirm")
    /\ UNCHANGED <<args, threshold, env, image, rect, cells, prompted,
                   lastLine, dirCreated, files, error, fin, fout>>

\* scan, lines 124-137 and 147-149: one pass of the prompt loop
Prompt ==
    /\ pc = "confirm"
    /\ ~args.yes
    /\ prompted' = TRUE
    /\ \/ \E line \in Lines :
            /\ lastLine' = line
            /\ LET answer == Answer(line)
               IN  IF answer = "retry"
                   THEN UNCHANGED <<pc, confirmation, stages>>
                   ELSE /\ confirmation' = answer
                        /\ pc' = IF answer = "true" THEN "save_dir"
                                 ELSE "done_declined"
                        /\ Done("confirm")
       \/ \* read_line fails (the input is not UTF-8): unwrap panics
          /\ pc' = "panic"
          /\ UNCHANGED <<lastLine, confirmation, stages>>
    /\ UNCHANGED <<args, threshold, env, image, rect, cells, dirCreated,
                   files, error, fin, fout>>

\* scan, lines 139-141
CreateDir ==
    /\ pc = "save_dir"
    /\ \/ dirCreated' = TRUE /\ pc' = "save_cells" /\ error' = error
       \/ Fail("IoError") /\ dirCreated' = dirCreated
    /\ lastLine' = <<>>      \* `input` went out of scope with the loop
    /\ UNCHANGED <<args, threshold, env, image, rect, cells, confirmation,
                   prompted, stages, files, fin, fout>>

\* scan, lines 142-145: one pass of the save loop, writing letter-i.jpeg for
\* i = the number of files written so far
SaveCell ==
    /\ pc = "save_cells"
    /\ Len(files) < Len(cells)
    /\ \/ files' = Append(files, Len(files)) /\ UNCHANGED <<pc, error>>
       \/ Fail("IoError") /\ files' = files
    /\ UNCHANGED <<args, threshold, env, image, rect, cells, confirmation,
                   prompted, lastLine, stages, dirCreated, fin, fout>>

\* scan, lines 146 and 151
FinishSave ==
    /\ pc = "save_cells"
    /\ Len(files) = Len(cells)
    /\ pc' = "done_saved"
    /\ Done("save")
    /\ UNCHANGED <<args, threshold, env, image, rect, cells, confirmation,
                   prompted, lastLine, dirCreated, files, error, fin, fout>>

Next ==
    \/ Parse \/ ValidateInput \/ ValidateOutputDir \/ Load \/ Orient
    \/ Sharpen \/ BinarizeStep \/ Crop \/ Segment \/ ConfirmYes \/ Prompt
    \/ CreateDir \/ SaveCell \/ FinishSave

Spec == Init /\ [][Next]_vars

\* the process runs until it exits: once the prompt loop is left, the save
\* step that can be taken is taken
SaveStep == CreateDir \/ SaveCell \/ FinishSave

FairSpec == Spec /\ WF_vars(SaveStep)

(***************************************************************************)
(* The functions of the pipeline applied on their own, to inputs drawn     *)
(* from ranges wider than those a whole run of scan can enumerate.         *)
(***************************************************************************)
NoRun ==
    /\ pc = "idle"
    /\ args = [threshold |-> DefaultThreshold, yes |-> FALSE]
    /\ env = [input_is_file |-> FALSE, output |-> "cwd", decodes |-> FALSE,
              source |-> NoImage]
    /\ Idle

\* every luma against every threshold
InitThreshold ==
    /\ NoRun
    /\ fin \in [kind : {"threshold"}, v : 0..MaxLuma, t : 0..MaxLuma]
    /\ fout = [done |-> FALSE, value |-> 0]

ApplyThreshold ==
    /\ fin.kind = "threshold"
    /\ ~fout.done
    /\ fout' = [done |-> TRUE, value |-> Threshold(fin.v, fin.t)]
    /\ UNCHANGED <<scanVars, fin>>

SpecThreshold == InitThreshold /\ [][ApplyThreshold]_vars

\* the sizes of a binarized image: width >= height after lines 98-100.
\* 141481 is the least height whose f32 product with 0.079 rounds up to an
\* integer
BigDims == {141481}

\* sizes at and next to the multiples of 500, where width * 0.066 or
\* height * 0.079 is an integer in exact arithmetic
NearMultiples == {k * 500 + d : k \in 1..282, d \in {-1, 0, 1}}

CropDims ==
    {<<n, Min(n, k)>> : n \in 1..MaxCropDim, k \in {1, 13, 1000}}
    \cup {<<n + k, n>> : n \in 1..MaxCropDim, k \in {0, 1, 400}}
    \cup {<<n, n>> : n \in NearMultiples}
    \cup {<<n, n>> : n \in BigDims}

InitCrop ==
    /\ NoRun
    /\ fin \in {[kind |-> "crop", w |-> d[1], h |-> d[2]] : d \in CropDims}
    /\ fout = [done |-> FALSE,
               rect |-> [x |-> 0, y |-> 0, width |-> 0, height |-> 0]]

ApplyCrop ==
    /\ fin.kind = "crop"
    /\ ~fout.done
    /\ fout' = [done |-> TRUE, rect |-> CropRect(fin.w, fin.h)]
    /\ UNCHANGED <<scanVars, fin>>

SpecCrop == InitCrop /\ [][ApplyCrop]_vars

Grids == ((1..MaxGrid) \X (1..MaxGrid)) \cup {<<GridColumns, GridRows>>}

InitGrid ==
    /\ NoRun
    /\ fin \in {[kind |-> "grid", w |-> w, h |-> h,
                 columns |-> g[1], rows |-> g[2]] :
                    w \in 1..MaxGridDim, h \in 1..MaxGridDim, g \in Grids}
    /\ fout = [done |-> FALSE, panic |-> FALSE, views |-> <<>>]

ApplyGrid ==
    /\ fin.kind = "grid"
    /\ ~fout.done
    /\ LET cut == grid_cut_image(fin.w, fin.h, fin.columns, fin.rows)
       IN  fout' = [done |-> TRUE, panic |-> cut.panic, views |-> cut.views]
    /\ UNCHANGED <<scanVars, fin>>

SpecGrid == InitGrid /\ [][ApplyGrid]_vars

(***************************************************************************)
(* Properties.                                                             *)
(***************************************************************************)
IsPrefix(s, t) == Len(s) <= Len(t) /\ SubSeq(t, 1, Len(s)) = s

Portrait(img) == img.h > img.w

\* C1: orientation normalization.  Right after the orientation step a
\* portrait input (height > width) has been rotated once by 270 degrees, so
\* the image is input-height wide and input-width high and width >= height;
\* a landscape or square input is the very image that was loaded.  No later
\* stage rotates again.
C1_OrientationNormalized ==
    LET src == env.source
    IN  /\ pc = "sharpen" =>
              IF Portrait(src)
              THEN /\ image = [src EXCEPT !.w = src.h, !.h = src.w, !.rot = 270]
                   /\ image.w >= image.h
              ELSE image = src
        /\ Len(stages) >= 3 => image.rot = IF Portrait(src) THEN 270 ELSE 0

C1_Witness ==
    /\ pc = "sharpen"
    /\ Portrait(env.source)
    /\ image.rot = 270
    /\ image.w > image.h

\* C2 as stated: the output pixel is black (foreground) iff v < t and white
\* (background) iff v >= t.
C2_Original ==
    fout.done =>
        /\ fout.value = 0 <=> fin.v < fin.t
        /\ fout.value = MaxLuma <=> fin.v >= fin.t

\* C2 amended: for every luma v and threshold t in 0..255 the output pixel
\* is black (foreground) iff v <= t and white (background) iff v > t; a
\* pixel equal to the threshold becomes black, threshold 0 leaves black
\* exactly the pixels valued 0, and threshold 255 makes every pixel black.
C2_Binarization ==
    fout.done =>
        /\ fout.value \in {0, MaxLuma}
        /\ fout.value = 0 <=> fin.v <= fin.t
        /\ fout.value = MaxLuma <=> fin.v > fin.t
        /\ fin.v = fin.t => fout.value = 0
        /\ fin.t = 0 => (fout.value = 0 <=> fin.v = 0)
        /\ fin.t = MaxLuma => fout.value = 0

C2_Witness ==
    /\ fout.done
    /\ fin.v = fin.t
    /\ fin.t = DefaultThreshold
    /\ fout.value = 0

\* floor(n * num / 1000) in exact arithmetic, without leaving 32 bits
FloorPerMille(n, num) == (n \div 1000) * num + ((n % 1000) * num) \div 1000

ExactCropRect(w, h) ==
    LET x == FloorPerMille(w, 66)
        y == FloorPerMille(h, 79)
    IN  [x |-> x, y |-> y, width |-> w - 2 * x,
         height |-> h - 2 * y + y \div 5]

\* C3: the crop rectangle is (x, y, W - 2x, H - 2y + floor(0.2 * y)) with
\* x = floor(W * 0.066) and y = floor(H * 0.079), for every image size.
C3_CropRectangle ==
    fout.done => fout.rect = ExactCropRect(fin.w, fin.h)

\* The same for the sizes below the first height at which the f32 product
\* rounds up to an integer: there the code computes the exact rectangle.
CropRectExactBelowBig ==
    (fout.done /\ fin.h \notin BigDims) => fout.rect = ExactCropRect(fin.w, fin.h)

\* C4 speaks of a crop rectangle outside the image.  The rectangle of lines
\* 107-111 always lies inside it, so view's assertion never fails.
CropRectInBounds ==
    fout.done => ViewInBounds(fin.w, fin.h, fout.rect)

ScanCropInBounds == pc # "panic" \/ Len(stages) >= 7

\* C5: grid_cut_image returns columns * rows views in row-major order: the
\* view at index row * columns + col is the rectangle
\* (col * cellWidth, row * cellHeight, cellWidth, cellHeight) with
\* cellWidth = floor(imageWidth / columns), cellHeight =
\* floor(imageHeight / rows); the 12 x 9 grid gives 108 views.
C5_GridRowMajor ==
    fout.done =>
        LET cw == fin.w \div fin.columns
            ch == fin.h \div fin.rows
        IN  /\ ~fout.panic
            /\ Len(fout.views) = fin.columns * fin.rows
            /\ \A row \in 0..(fin.rows - 1), col \in 0..(fin.columns - 1) :
                   fout.views[row * fin.columns + col + 1] =
                       [x |-> col * cw, y |-> row * ch,
                        width |-> cw, height |-> ch]
            /\ (fin.columns = GridColumns /\ fin.rows = GridRows)
                   => Len(fout.views) = 108

C5_Witness ==
    /\ fout.done
    /\ fin.columns = GridColumns /\ fin.rows = GridRows
    /\ fin.w = 12 /\ fin.h = 9
    /\ Len(fout.views) = 108
    /\ fout.views[108] = [x |-> 11, y |-> 8, width |-> 1, height |-> 1]

\* the widths of the first k cells that lie in the row starting at y
RECURSIVE RowWidthSum(_, _, _)
RowWidthSum(v, y, k) ==
    IF k = 0 THEN 0
    ELSE (IF v[k].y = y THEN v[k].width ELSE 0) + RowWidthSum(v, y, k - 1)

\* the heights of the first k cells that lie in the column starting at x
RECURSIVE ColumnHeightSum(_, _, _)
ColumnHeightSum(v, x, k) ==
    IF k = 0 THEN 0
    ELSE (IF v[k].x = x THEN v[k].height ELSE 0) + ColumnHeightSum(v, x, k - 1)

SharePixel(a, b) ==
    /\ Max(a.x, b.x) < Min(a.x + a.width, b.x + b.width)
    /\ Max(a.y, b.y) < Min(a.y + a.height, b.y + b.height)

\* C6: every cell lies inside the image, the widths of the cells of one row
\* sum to at most the image width, the heights of the cells of one column to
\* at most the image height, and no two distinct cells share a pixel.
C6_CellGeometry ==
    fout.done =>
        LET v == fout.views
            n == Len(v)
        IN  /\ ~fout.panic
            /\ \A i \in 1..n :
                   /\ v[i].x >= 0 /\ v[i].y >= 0
                   /\ v[i].x + v[i].width <= fin.w
                   /\ v[i].y + v[i].height <= fin.h
            /\ \A i \in 1..n :
                   /\ v[i].height > 0 => RowWidthSum(v, v[i].y, n) <= fin.w
                   /\ v[i].width > 0 => ColumnHeightSum(v, v[i].x, n) <= fin.h
            /\ \A i \in 1..n, j \in 1..n :
                   i # j => ~SharePixel(v[i], v[j])

C6_Witness ==
    /\ fout.done
    /\ fin.w % fin.columns # 0
    /\ fin.h % fin.rows # 0
    /\ fin.columns > 1 /\ fin.rows > 1
    /\ fout.views[1].width > 1
    /\ fout.views[1].height > 1

ProcessingStarted ==
    \/ stages # <<>>
    \/ image # NoImage
    \/ cells # <<>>
    \/ dirCreated
    \/ files # <<>>
    \/ prompted

\* C7: a threshold outside 0..255 is rejected with InvalidThreshold before
\* anything else runs: no validation, load, rotation, sharpening,
\* binarization, crop, segmentation, prompt or save happens in such a run.
C7_ThresholdRejected ==
    args.threshold \notin 0..MaxLuma =>
        /\ pc \in {"parse", "usage_error"}
        /\ pc = "usage_error" => error = "InvalidThreshold"
        /\ ~ProcessingStarted

C7_Witness ==
    /\ args.threshold = 300
    /\ pc = "usage_error"
    /\ error = "InvalidThreshold"

\* the number of completed stages at each position of a run that has not
\* failed
StagesAt(p) ==
    CASE p \in {"parse", "usage_error", "validate_input", "validate_output"} -> 0
      [] p = "load" -> 1
      [] p = "orient" -> 2
      [] p = "sharpen" -> 3
      [] p = "binarize" -> 4
      [] p = "crop" -> 5
      [] p = "segment" -> 6
      [] p = "confirm" -> 7
      [] p \in {"save_dir", "save_cells", "done_declined"} -> 8
      [] p = "done_saved" -> 9

NothingWritten == files = <<>> /\ ~dirCreated

\* C8: the stages complete in the order validate, load, orient, sharpen,
\* binarize, crop, segment, confirm, save, each only after its predecessor;
\* a run whose input path is no file, whose output path is a file or whose
\* input does not decode ends in an error at that stage with no later stage
\* run, and nothing is written before segmentation and confirmation are done.
C8_FailFast ==
    /\ IsPrefix(stages, StageOrder)
    /\ pc \notin {"error", "panic"} => Len(stages) = StagesAt(pc)
    /\ Len(stages) < 8 => NothingWritten /\ confirmation = "unset"
    /\ Len(stages) < 7 => cells = <<>> /\ ~prompted
    /\ (args.threshold \in 0..MaxLuma /\ ~env.input_is_file) =>
           /\ pc \in {"parse", "validate_input", "error"}
           /\ stages = <<>>
           /\ pc = "error" => error = "InputNotFile"
    /\ (args.threshold \in 0..MaxLuma /\ env.input_is_file
            /\ env.output = "file") =>
           /\ pc \in {"parse", "validate_input", "validate_output", "error"}
           /\ stages = <<>>
           /\ pc = "error" => error = "OutputIsFile"
    /\ error \in {"InputNotFile", "OutputIsFile", "CurrentDirError"} =>
           pc = "error" /\ stages = <<>> /\ image = NoImage
    /\ ~env.decodes => Len(stages) <= 1 /\ image = NoImage
    /\ error = "DecodeFailure" =>
           pc = "error" /\ stages = <<"validate">> /\ ~env.decodes
    /\ pc = "panic" => NothingWritten

C8_Witness ==
    /\ pc = "error"
    /\ error = "OutputIsFile"
    /\ env.decodes
    /\ stages = <<>>

Scenario ==
    /\ env.source = Uniform(1200, 1600, MaxLuma)
    /\ args.threshold = DefaultThreshold
    /\ Len(stages) >= 3

ScenarioGeometry ==
    /\ image.rot = 270
    /\ pc \in {"sharpen", "binarize", "crop"} => image.w = 1600 /\ image.h = 1200
    /\ Len(stages) >= 6 =>
           /\ rect = [x |-> 105, y |-> 94, width |-> 1390, height |-> 1030]
           /\ image.w = 1390 /\ image.h = 1030
           /\ ImageValues(image) = {MaxLuma}
    /\ Len(stages) >= 7 =>
           /\ Len(cells) = 108
           /\ \A i \in 1..Len(cells) :
                  /\ cells[i].width = 115 /\ cells[i].height = 114
                  /\ cells[i].width = image.w \div 12
                  /\ cells[i].height = image.h \div 9
                  /\ RectValues(image, cells[i]) = {MaxLuma}

\* C9 as stated: the 1200 x 1600 all-white image with threshold 190 is
\* rotated to 1600 x 1200, binarized to all background, cropped to
\* (105, 94, 1390, 1030) and cut into 108 background cells of 115 x 114.
C9_Original ==
    Scenario =>
        /\ ScenarioGeometry
        /\ pc = "crop" => ImageValues(image) = {MaxLuma}

\* C9 amended: as stated, except that the binarized image is background
\* everywhere but on its outermost rows and columns: the sharpening filter
\* leaves that one-pixel frame at 0, it binarizes to foreground, and the
\* crop removes it.
C9_EndToEnd ==
    Scenario =>
        /\ ScenarioGeometry
        /\ pc = "crop" =>
               /\ ImageValues(image) = {0, MaxLuma}
               /\ RectValues(image, [x |-> 1, y |-> 1, width |-> image.w - 2,
                                     height |-> image.h - 2]) = {MaxLuma}
               /\ \A x \in {0, image.w - 1}, y \in {0, image.h - 1} :
                      PixelAt(image, x, y) = 0
               /\ PixelAt(image, 1, 0) = 0 /\ PixelAt(image, 0, 1) = 0
               /\ PixelAt(image, image.w - 2, image.h - 1) = 0
               /\ PixelAt(image, image.w - 1, image.h - 2) = 0

C9_Witness ==
    /\ Scenario
    /\ pc = "done_saved"
    /\ Len(cells) = 108
    /\ Len(files) = 108

\* what the prompt loop does with the line it has just read
\* what one pass of the prompt loop does with the line it has read, whose
\* text, as the loop judges it, is t
RetryRule(t) ==
    (pc = "confirm" /\ ~args.yes /\ pc' # "panic" /\ prompted') =>
            /\ (~StartsWith(t, "y") /\ ~StartsWith(t, "n")) =>
                   /\ pc' = "confirm"
                   /\ confirmation' = "unset"
            /\ StartsWith(t, "y") =>
                   /\ pc' = "save_dir"
                   /\ confirmation' = "true"
            /\ StartsWith(t, "n") =>
                   /\ pc' = "done_declined"
                   /\ confirmation' = "false"

InOrder(f) == \A i \in 1..Len(f) : f[i] = i - 1

GateRule ==
    /\ args.yes => ~prompted /\ lastLine = <<>> /\ confirmation # "false"
    /\ (args.yes /\ Len(stages) >= 8) => confirmation = "true"
    /\ (dirCreated \/ files # <<>>
          \/ pc \in {"save_dir", "save_cells", "done_saved"})
           => confirmation = "true"
    /\ confirmation = "true" =>
           pc \in {"save_dir", "save_cells", "done_saved", "error"}
    /\ confirmation = "false" <=> pc = "done_declined"
    /\ pc = "done_declined" => NothingWritten
    /\ InOrder(files) /\ Len(files) <= Len(cells)
    /\ files # <<>> => dirCreated
    /\ pc = "done_saved" => dirCreated /\ Len(files) = 108

\* C10 as stated: a line that starts with neither 'y' nor 'n' re-prompts,
\* the loop exits only on a line starting with 'y' (true) or 'n' (false),
\* the save step runs iff the gate is true, and once such a line is read
\* scan ends in the saved or the exit-without-saving state.
C10_Original ==
    /\ [][RetryRule(lastLine')]_vars
    /\ []GateRule
    /\ (confirmation # "unset") ~> (pc \in {"done_saved", "done_declined"})

\* C10 amended: with --yes no prompt is read and the save step runs.
\* Without it, every line read whose text, trimmed of leading and trailing
\* whitespace, starts with neither 'y' nor 'n' (the empty line included)
\* re-prompts; the loop is left only on a line whose trimmed text starts
\* with 'y' (gate true) or 'n' (gate false), or by a panic when read_line
\* fails, which saves nothing.  The save step (create the output directory,
\* then write letter-0 .. letter-107 in order) runs iff the gate is true.
\* Once the gate is decided scan ends: saved, exit without saving, or the
\* I/O error of a failed create_dir_all or save.
C10_ConfirmationGate ==
    /\ [][RetryRule(Trim(lastLine'))]_vars
    /\ []GateRule
    /\ (confirmation # "unset") ~>
           (\/ pc \in {"done_saved", "done_declined"}
            \/ (pc = "error" /\ error = "IoError"))

C10_Witness ==
    /\ pc = "save_dir"
    /\ ~args.yes
    /\ lastLine = <<" ", "y", "\n">>
    /\ confirmation = "true"

====
